---- MODULE Spec2Model ----
(***************************************************************************)
(* Model of scroll-bye-bye's claimer: claim_for_all (the orchestrator that *)
(* fills a tokio JoinSet with one claim_and_transfer task per (wallet,     *)
(* recipient) pair and drains it, respawning failed tasks) and the         *)
(* claim_and_transfer workflow each task runs against the chain.           *)
(***************************************************************************)
EXTENDS Integers, Sequences, FiniteSets, TLC

\* ---------------------------------------------------------------- bounds
MaxUnits == 2
MaxProviders == 2
MaxDelay == 1
MaxJitter == 1
MaxFail == 2
MaxRetriesArg == 3
MaxRetryDelayArg == 2

\* proof.rs 74-75: what unwrap_or supplies for a None argument.
DefaultMaxRetries == 5
DefaultRetryDelay == 3

\* Ghost counters stop counting here; only a wallet whose step can never
\* succeed reaches it (every other wallet fails at most MaxFail times).
MaxCount == MaxFail + 1

Min(a, b) == IF a < b THEN a ELSE b

Inc(x) == IF x < MaxCount THEN x + 1 ELSE x

VARIABLES
    nWallets,      \* length of the vector read_private_keys returns
    nRecipients,   \* length of the vector read_recipients returns
    nProviders,    \* length of config.rpc_urls, hence of providers
    delay,         \* config.spawn_task_delay
    proofKind,     \* per wallet: what the proof API answers for its address
    proofAmount,   \* per wallet: the "amount" of a well-formed answer
    hasClaimed,    \* TokenDistributor.hasClaimed(address), on chain
    balance,       \* IERC20.balanceOf(address), on chain
    pc,            \* where claim_for_all is
    fatal,         \* which unwrap() panicked in claim_for_all, if any
    i,             \* pairs the for loop has consumed
    elapsed,       \* time since the previous first admission (or the start)
    sleeps,        \* throttle sleeps performed (line 243)
    handles,       \* the JoinSet
    spawned,       \* per wallet: tasks spawned for it
    failures,      \* per wallet: Err results the loop has matched
    successes,     \* per wallet: Ok results the loop has matched
    max_retries,   \* send_http_request_with_retries: Option argument, <<>> is None
    retry_delay,   \* send_http_request_with_retries: Option argument, <<>> is None
    rpos,          \* where a call of send_http_request_with_retries is
    tries,         \* iterations of its for loop started (requests sent)
    failed,        \* requests that returned Err
    waited,        \* total time slept between requests
    response       \* what the call returned

vars == <<nWallets, nRecipients, nProviders, delay, proofKind, proofAmount,
          hasClaimed, balance, pc, fatal, i, elapsed, sleeps,
          handles, spawned, failures, successes,
          max_retries, retry_delay, rpos, tries, failed, waited, response>>

config == <<nWallets, nRecipients, nProviders, delay, proofKind, proofAmount>>
chain == <<hasClaimed, balance>>
orch == <<pc, fatal, i, elapsed, sleeps, spawned, failures, successes>>
retry == <<max_retries, retry_delay, rpos, tries, failed, waited, response>>

\* wallets.into_iter().zip(recipients.into_iter()): the pairs are the
\* positions both vectors have.
NumUnits == Min(nWallets, nRecipients)
Units == 1..NumUnits

\* Token amounts: claim_and_transfer tells zero from not zero and nothing else.
Amounts == {0, 1}

\* ------------------------------------------------------------------ tasks
\* A task of the JoinSet: the future spawned at lines 246-249 / 263-266.
\* st is where claim_and_transfer is, or how the task ended.
NewTask(w, r, p, n) ==
    [wallet |-> w, recipient |-> r, provider |-> p, attempt |-> n,
     st |-> "has_claimed", has_claimed |-> FALSE, allocation |-> 0,
     claimTx |-> "none", transferTx |-> "none"]

Running(t) == t.st \in {"has_claimed", "allocation", "transfer"}
Finished(t) == ~Running(t)

Replace(t, u) == (handles \ {t}) \cup {u}

\* The task ends with Err(e) or by a panic: the locals of claim_and_transfer
\* are gone, the result is (wallet, recipient, Err) or a JoinError.
Ended(t, how) == [NewTask(t.wallet, t.recipient, t.provider, t.attempt) EXCEPT !.st = how]

\* The task ends with Ok(()); claimTx and transferTx stay, as the record of
\* the transactions this run of the step had mined.
EndedOk(t, transfer) ==
    [NewTask(t.wallet, t.recipient, t.provider, t.attempt) EXCEPT
        !.st = "ok", !.claimTx = t.claimTx, !.transferTx = transfer]

\* Err results the tasks of wallet w have produced so far.
ErrsOf(w) == failures[w] + Cardinality({t \in handles : t.wallet = w /\ t.st = "err"})

\* A transient failure (transport error, RPC error, receipt not obtained):
\* possible at every await of the step, at most MaxFail times per wallet.
MayFail(w) == ErrsOf(w) < MaxFail

\* claimer.rs 187-191: the hasClaimed call.
TaskHasClaimed(t) ==
    /\ t \in handles
    /\ t.st = "has_claimed"
    /\ \/ /\ MayFail(t.wallet)
          /\ handles' = Replace(t, Ended(t, "err"))
       \/ handles' = Replace(t, [t EXCEPT !.st = "allocation",
                                          !.has_claimed = hasClaimed[t.wallet]])
    /\ UNCHANGED <<retry, config, chain, orch>>

\* TaskAllocation as it would be without the match on has_claimed: the proof
\* is fetched and the claim is sent whatever hasClaimed answered.
TaskAllocation_AlwaysClaim(t) ==
    /\ t \in handles
    /\ t.st = "allocation"
    /\ LET w == t.wallet IN
       \/ /\ MayFail(w)
          /\ handles' = Replace(t, Ended(t, "err"))
          /\ UNCHANGED chain
       \/ /\ proofKind[w] = "malformed"
          /\ handles' = Replace(t, Ended(t, "err"))
          /\ UNCHANGED chain
       \/ /\ proofKind[w] = "bad_proof"
          /\ handles' = Replace(t, Ended(t, "panic"))
          /\ UNCHANGED chain
       \/ /\ proofKind[w] = "valid"
          /\ ~hasClaimed[w]
          /\ hasClaimed' = [hasClaimed EXCEPT ![w] = TRUE]
          /\ balance' = [balance EXCEPT ![w] = @ + proofAmount[w]]
          /\ handles' = Replace(t, [t EXCEPT !.st = "transfer",
                                             !.claimTx = "confirmed",
                                             !.allocation = proofAmount[w]])
       \/ /\ proofKind[w] = "valid"
          /\ handles' = Replace(t, [t EXCEPT !.st = "transfer",
                                             !.claimTx = "reverted",
                                             !.allocation = proofAmount[w]])
          /\ UNCHANGED chain
    /\ UNCHANGED <<retry, config, orch>>

\* claimer.rs 193-204: the match on has_claimed.
TaskAllocation(t) ==
    /\ t \in handles
    /\ t.st = "allocation"
    /\ LET w == t.wallet IN
       IF t.has_claimed
       THEN \* get_token_balance(...).await?
            /\ \/ /\ MayFail(w)
                  /\ handles' = Replace(t, Ended(t, "err"))
               \/ handles' = Replace(t, [t EXCEPT !.st = "transfer",
                                                  !.allocation = balance[w]])
            /\ UNCHANGED chain
       ELSE \/ \* get_proof(...).await? : the retries are exhausted
               /\ MayFail(w)
               /\ handles' = Replace(t, Ended(t, "err"))
               /\ UNCHANGED chain
            \/ \* extract_proof_and_amount(...)? : no "1:", bad JSON, no amount
               /\ proofKind[w] = "malformed"
               /\ handles' = Replace(t, Ended(t, "err"))
               /\ UNCHANGED chain
            \/ \* extract_proof_and_amount: unwrap() on a proof entry panics
               /\ proofKind[w] = "bad_proof"
               /\ handles' = Replace(t, Ended(t, "panic"))
               /\ UNCHANGED chain
            \/ \* claim(...).await? : an error before the transaction is mined
               /\ proofKind[w] = "valid"
               /\ MayFail(w)
               /\ handles' = Replace(t, Ended(t, "err"))
               /\ UNCHANGED chain
            \/ \* claim(...).await? : the claim is mined and succeeds, but
               \* get_receipt() fails
               /\ proofKind[w] = "valid"
               /\ MayFail(w)
               /\ ~hasClaimed[w]
               /\ hasClaimed' = [hasClaimed EXCEPT ![w] = TRUE]
               /\ balance' = [balance EXCEPT ![w] = @ + proofAmount[w]]
               /\ handles' = Replace(t, Ended(t, "err"))
            \/ \* claim(...).await? : Ok(true), the claim is mined and succeeds
               /\ proofKind[w] = "valid"
               /\ ~hasClaimed[w]
               /\ hasClaimed' = [hasClaimed EXCEPT ![w] = TRUE]
               /\ balance' = [balance EXCEPT ![w] = @ + proofAmount[w]]
               /\ handles' = Replace(t, [t EXCEPT !.st = "transfer",
                                                  !.claimTx = "confirmed",
                                                  !.allocation = proofAmount[w]])
            \/ \* claim(...).await? : Ok(false), the receipt says reverted;
               \* the bool is dropped and the step goes on
               /\ proofKind[w] = "valid"
               /\ handles' = Replace(t, [t EXCEPT !.st = "transfer",
                                                  !.claimTx = "reverted",
                                                  !.allocation = proofAmount[w]])
               /\ UNCHANGED chain
    /\ UNCHANGED <<retry, config, orch>>

\* claimer.rs 206-210: the transfer and the Ok(()).
TaskTransfer(t) ==
    /\ t \in handles
    /\ t.st = "transfer"
    /\ LET w == t.wallet IN
       IF t.allocation = 0
       THEN /\ handles' = Replace(t, EndedOk(t, "none"))
            /\ UNCHANGED chain
       ELSE \/ \* transfer(...).await? : an error
               /\ MayFail(w)
               /\ handles' = Replace(t, Ended(t, "err"))
               /\ UNCHANGED chain
            \/ \* Ok(true): the transfer is mined and succeeds
               /\ balance[w] >= t.allocation
               /\ balance' = [balance EXCEPT ![w] = @ - t.allocation]
               /\ handles' = Replace(t, EndedOk(t, "confirmed"))
               /\ UNCHANGED hasClaimed
            \/ \* Ok(false): reverted; the bool is dropped, Ok(()) is returned
               /\ handles' = Replace(t, EndedOk(t, "reverted"))
               /\ UNCHANGED chain
    /\ UNCHANGED <<retry, config, orch>>

\* ----------------------------------------------------------- claim_for_all
\* FillSleep as it would be if the sleep returned at once.
FillSleep_NoWait ==
    /\ pc = "fill_sleep"
    /\ elapsed' = elapsed
    /\ sleeps' = sleeps + 1
    /\ pc' = "fill_spawn"
    /\ UNCHANGED <<retry, config, chain, fatal, i, handles, spawned,
                   failures, successes>>

\* claimer.rs 243: tokio::time::sleep(spawn_task_delay) returns no earlier
\* than the delay after it was called.
FillSleep ==
    /\ pc = "fill_sleep"
    /\ \E j \in 0..MaxJitter : elapsed' = elapsed + delay + j
    /\ sleeps' = sleeps + 1
    /\ pc' = "fill_spawn"
    /\ UNCHANGED <<retry, config, chain, fatal, i, handles, spawned,
                   failures, successes>>

\* FillSpawn as it would be if the for loop awaited the tasks spawned so far
\* before spawning the next one.
FillSpawn_AwaitEarlier ==
    /\ pc = "fill_spawn"
    /\ \A t \in handles : Finished(t)
    /\ \/ /\ nProviders = 0
          /\ pc' = "panicked"
          /\ fatal' = "choose_unwrap"
          /\ UNCHANGED <<i, elapsed, handles, spawned>>
       \/ \E p \in 1..nProviders :
             /\ handles' = handles \cup {NewTask(i + 1, i + 1, p, Inc(spawned[i + 1]))}
             /\ spawned' = [spawned EXCEPT ![i + 1] = Inc(@)]
             /\ elapsed' = 0
             /\ i' = i + 1
             /\ pc' = IF i + 1 < NumUnits THEN "fill_sleep" ELSE "drain"
             /\ UNCHANGED fatal
    /\ UNCHANGED <<retry, config, chain, sleeps, failures, successes>>

\* claimer.rs 244-249: choose a provider, spawn the first task of pair i+1.
FillSpawn ==
    /\ pc = "fill_spawn"
    /\ \/ \* providers.choose(&mut rng) is None: unwrap() panics
          /\ nProviders = 0
          /\ pc' = "panicked"
          /\ fatal' = "choose_unwrap"
          /\ UNCHANGED <<i, elapsed, handles, spawned>>
       \/ \E p \in 1..nProviders :
             /\ handles' = handles \cup {NewTask(i + 1, i + 1, p, Inc(spawned[i + 1]))}
             /\ spawned' = [spawned EXCEPT ![i + 1] = Inc(@)]
             /\ elapsed' = 0
             /\ i' = i + 1
             /\ pc' = IF i + 1 < NumUnits THEN "fill_sleep" ELSE "drain"
             /\ UNCHANGED fatal
    /\ UNCHANGED <<retry, config, chain, sleeps, failures, successes>>

\* JoinNextOk as it would be if the Ok arm spawned again, as the Err arm does.
JoinNextOk_Respawn(t) ==
    /\ pc = "drain"
    /\ t \in handles
    /\ t.st = "ok"
    /\ successes' = [successes EXCEPT ![t.wallet] = Inc(@)]
    /\ \E p \in 1..nProviders :
          handles' = (handles \ {t}) \cup
                     {NewTask(t.wallet, t.recipient, p, Inc(spawned[t.wallet]))}
    /\ spawned' = [spawned EXCEPT ![t.wallet] = Inc(@)]
    /\ UNCHANGED <<retry, config, chain, pc, fatal, i, elapsed, sleeps,
                   failures>>

\* claimer.rs 252-258: join_next yields a task whose result is Ok.
JoinNextOk(t) ==
    /\ pc = "drain"
    /\ t \in handles
    /\ t.st = "ok"
    /\ handles' = handles \ {t}
    /\ successes' = [successes EXCEPT ![t.wallet] = Inc(@)]
    /\ UNCHANGED <<retry, config, chain, pc, fatal, i, elapsed, sleeps,
                   spawned, failures>>

\* JoinNextErr as it would be if the failed task stayed in the JoinSet while
\* its replacement is spawned.
JoinNextErr_KeepOld(t) ==
    /\ pc = "drain"
    /\ t \in handles
    /\ t.st = "err"
    /\ failures' = [failures EXCEPT ![t.wallet] = Inc(@)]
    /\ \E p \in 1..nProviders :
          handles' = handles \cup
                     {NewTask(t.wallet, t.recipient, p, Inc(spawned[t.wallet]))}
    /\ spawned' = [spawned EXCEPT ![t.wallet] = Inc(@)]
    /\ UNCHANGED <<retry, config, chain, pc, fatal, i, elapsed, sleeps,
                   successes>>

\* JoinNextErr as it would be with a retry ceiling of one and a throttle
\* sleep before the resubmission.
JoinNextErr_Ceiling(t) ==
    /\ pc = "drain"
    /\ t \in handles
    /\ t.st = "err"
    /\ failures' = [failures EXCEPT ![t.wallet] = Inc(@)]
    /\ IF failures[t.wallet] < 1
       THEN /\ \E p \in 1..nProviders :
                 handles' = (handles \ {t}) \cup
                            {NewTask(t.wallet, t.recipient, p, Inc(spawned[t.wallet]))}
            /\ spawned' = [spawned EXCEPT ![t.wallet] = Inc(@)]
       ELSE /\ handles' = handles \ {t}
            /\ UNCHANGED spawned
    /\ UNCHANGED <<retry, config, chain, pc, fatal, i, elapsed, sleeps,
                   successes>>

\* JoinNextErr as it would be if the Err arm took the recipient from any
\* position of the recipients list.
JoinNextErr_OtherRecipient(t) ==
    /\ pc = "drain"
    /\ t \in handles
    /\ t.st = "err"
    /\ failures' = [failures EXCEPT ![t.wallet] = Inc(@)]
    /\ \E p \in 1..nProviders :
       \E r \in Units :
          handles' = (handles \ {t}) \cup
                     {NewTask(t.wallet, r, p, Inc(spawned[t.wallet]))}
    /\ spawned' = [spawned EXCEPT ![t.wallet] = Inc(@)]
    /\ UNCHANGED <<retry, config, chain, pc, fatal, i, elapsed, sleeps,
                   successes>>

\* JoinNextErr as it would be if the Err arm never chose the provider of the
\* task that failed.
JoinNextErr_AvoidFailed(t) ==
    /\ pc = "drain"
    /\ t \in handles
    /\ t.st = "err"
    /\ failures' = [failures EXCEPT ![t.wallet] = Inc(@)]
    /\ \E p \in (1..nProviders) \ {t.provider} :
          handles' = (handles \ {t}) \cup
                     {NewTask(t.wallet, t.recipient, p, Inc(spawned[t.wallet]))}
    /\ spawned' = [spawned EXCEPT ![t.wallet] = Inc(@)]
    /\ UNCHANGED <<retry, config, chain, pc, fatal, i, elapsed, sleeps,
                   successes>>

\* JoinNextErr as it would be if the for loop polled the JoinSet between two
\* admissions and resubmitted what had failed.
JoinNextErr_DuringFill(t) ==
    /\ pc \in {"drain", "fill_sleep"}
    /\ t \in handles
    /\ t.st = "err"
    /\ failures' = [failures EXCEPT ![t.wallet] = Inc(@)]
    /\ \E p \in 1..nProviders :
          handles' = (handles \ {t}) \cup
                     {NewTask(t.wallet, t.recipient, p, Inc(spawned[t.wallet]))}
    /\ spawned' = [spawned EXCEPT ![t.wallet] = Inc(@)]
    /\ UNCHANGED <<retry, config, chain, pc, fatal, i, elapsed, sleeps,
                   successes>>

\* claimer.rs 252-267: join_next yields a task whose result is Err; a new
\* task for the same (wallet, recipient) is spawned on a chosen provider.
JoinNextErr(t) ==
    /\ pc = "drain"
    /\ t \in handles
    /\ t.st = "err"
    /\ failures' = [failures EXCEPT ![t.wallet] = Inc(@)]
    /\ \E p \in 1..nProviders :
          handles' = (handles \ {t}) \cup
                     {NewTask(t.wallet, t.recipient, p, Inc(spawned[t.wallet]))}
    /\ spawned' = [spawned EXCEPT ![t.wallet] = Inc(@)]
    /\ UNCHANGED <<retry, config, chain, pc, fatal, i, elapsed, sleeps,
                   successes>>

\* claimer.rs 252-253: join_next yields Err(JoinError) for a task that
\* panicked; res.unwrap() panics, claim_for_all unwinds and drops the JoinSet,
\* which aborts every task still in it.
JoinNextPanic(t) ==
    /\ pc = "drain"
    /\ t \in handles
    /\ t.st = "panic"
    /\ pc' = "panicked"
    /\ fatal' = "join_unwrap"
    /\ handles' = {}
    /\ UNCHANGED <<retry, config, chain, i, elapsed, sleeps, spawned,
                   failures, successes>>

\* claimer.rs 252, 269-270: join_next yields None on an empty JoinSet.
LoopExit ==
    /\ pc = "drain"
    /\ handles = {}
    /\ pc' = "done"
    /\ UNCHANGED <<retry, config, chain, fatal, i, elapsed, sleeps, handles,
                   spawned, failures, successes>>

\* What the chain and the proof API hold for one wallet when the run starts:
\* an address that has claimed holds some balance and its proof is no longer
\* asked for; one that has not claimed has any of the answers.
StartOf ==
    {[claimed |-> TRUE, bal |-> b, kind |-> "valid", amount |-> 0] : b \in Amounts}
    \cup {[claimed |-> FALSE, bal |-> 0, kind |-> "valid", amount |-> a] : a \in Amounts}
    \cup {[claimed |-> FALSE, bal |-> 0, kind |-> k, amount |-> 0] :
             k \in {"malformed", "bad_proof"}}

Init ==
    /\ nWallets \in 0..MaxUnits
    /\ nRecipients \in 0..MaxUnits
    /\ nProviders \in 0..MaxProviders
    /\ delay \in 0..MaxDelay
    /\ \E s \in [1..Min(nWallets, nRecipients) -> StartOf] :
          /\ proofKind = [w \in DOMAIN s |-> s[w].kind]
          /\ proofAmount = [w \in DOMAIN s |-> s[w].amount]
          /\ hasClaimed = [w \in DOMAIN s |-> s[w].claimed]
          /\ balance = [w \in DOMAIN s |-> s[w].bal]
    /\ pc = IF Min(nWallets, nRecipients) = 0 THEN "drain" ELSE "fill_sleep"
    /\ fatal = "none"
    /\ i = 0
    /\ elapsed = 0
    /\ sleeps = 0
    /\ handles = {}
    /\ spawned = [w \in 1..Min(nWallets, nRecipients) |-> 0]
    /\ failures = [w \in 1..Min(nWallets, nRecipients) |-> 0]
    /\ successes = [w \in 1..Min(nWallets, nRecipients) |-> 0]
    /\ max_retries = << >>
    /\ retry_delay = << >>
    /\ rpos = "idle"
    /\ tries = 0
    /\ failed = 0
    /\ waited = 0
    /\ response = "none"

Next ==
    \/ FillSleep
    \/ FillSpawn
    \/ \E t \in handles : JoinNextOk(t)
    \/ \E t \in handles : JoinNextErr(t)
    \/ \E t \in handles : JoinNextPanic(t)
    \/ LoopExit
    \/ \E t \in handles : TaskHasClaimed(t)
    \/ \E t \in handles : TaskAllocation(t)
    \/ \E t \in handles : TaskTransfer(t)

Spec == Init /\ [][Next]_vars

\* The tokio runtime polls every spawned task and the main future, and
\* join_next hands out every finished task: each of them takes its next step.
StepOf(w) ==
    \E t \in handles :
        t.wallet = w /\ (TaskHasClaimed(t) \/ TaskAllocation(t) \/ TaskTransfer(t))

JoinOf(w) ==
    \E t \in handles :
        t.wallet = w /\ (JoinNextOk(t) \/ JoinNextErr(t) \/ JoinNextPanic(t))

FairSpec ==
    /\ Spec
    /\ WF_vars(FillSleep)
    /\ WF_vars(FillSpawn)
    /\ WF_vars(LoopExit)
    /\ \A w \in 1..MaxUnits : WF_vars(StepOf(w)) /\ WF_vars(JoinOf(w))

\* ------------------------------------------------------------- properties
Live(w) == {t \in handles : t.wallet = w}

\* The while loop of claim_for_all was entered and has been left.
LoopTerminated == pc = "done" \/ (pc = "panicked" /\ fatal = "join_unwrap")

\* The step of wallet w cannot succeed, whatever is retried.
NeverSucceeds(w) == ~hasClaimed[w] /\ proofKind[w] # "valid"

\* C1: when the while loop of claim_for_all has been left, the JoinSet is
\* empty and every pair has exactly one recorded success; the loop is left in
\* no other way.
C1_TerminatesOnlyOnFullSuccess ==
    LoopTerminated => (handles = {} /\ \A w \in Units : successes[w] = 1)

\* C2: no pair has two tasks in the JoinSet at the same time.
C2_NoDuplicateLiveTask ==
    \A t1 \in handles : \A t2 \in handles : t1.wallet = t2.wallet => t1 = t2

\* A replacement task runs beside the task of another pair.
C2_Witness ==
    /\ Cardinality(handles) >= 2
    /\ \E t \in handles : t.attempt >= 2

\* C3: a task that failed, by a returned error or by a panic, never makes
\* claim_for_all fail: the loop is not left by a panic on a task's outcome.
C3_TaskFailureIsolated == ~(pc = "panicked" /\ fatal = "join_unwrap")

\* C4: a pair whose step fails k times and then succeeds has had exactly k+1
\* tasks (no task is spawned for it after its success), and when every pair
\* is such a pair the loop terminates.
C4_TasksOfSucceeded ==
    \A w \in Units :
        successes[w] >= 1 =>
            /\ successes[w] = 1
            /\ spawned[w] = failures[w] + 1
            /\ Live(w) = {}

C4_AllSucceedEventually ==
    /\ NumUnits = 0 \/ nProviders > 0
    /\ \A w \in Units : ~NeverSucceeds(w)

C4_AllDone ==
    /\ pc = "done"
    /\ \A w \in Units : successes[w] = 1 /\ spawned[w] = failures[w] + 1

C4_ExactResubmission ==
    /\ []C4_TasksOfSucceeded
    /\ (C4_AllSucceedEventually => <>C4_AllDone)

\* The loop has ended with a pair that failed MaxFail times before its success.
C4_Witness ==
    /\ pc = "done"
    /\ \E w \in Units :
          successes[w] = 1 /\ failures[w] = MaxFail /\ spawned[w] = MaxFail + 1

\* C5: a pair whose step never succeeds does not block the others: no
\* running task of another pair is ever dropped, and every other pair
\* eventually has its recorded success.
C5_OneNeverSucceeds == nProviders > 0 /\ \E b \in Units : NeverSucceeds(b)

C5_OthersKept ==
    C5_OneNeverSucceeds =>
        \A t \in handles :
            (Running(t) /\ ~NeverSucceeds(t.wallet)) =>
                \E u \in handles' : u.wallet = t.wallet

C5_FailingUnitDoesNotBlock ==
    /\ C5_OneNeverSucceeds =>
          \A w \in 1..MaxUnits :
              (w \in Units /\ ~NeverSucceeds(w)) =>
                  <>(w \in Units /\ successes[w] = 1)
    /\ [][C5_OthersKept]_vars

\* C6: a task ends with Ok(()) only if every transaction its run of
\* claim_and_transfer had mined was mined with a successful status.
C6_StepAtomic ==
    \A t \in handles :
        t.st = "ok" => (t.claimTx # "reverted" /\ t.transferTx # "reverted")

\* C7: with wallets and recipients of different lengths no task is ever
\* spawned.
C7_LengthMismatchFatal ==
    nWallets # nRecipients => (handles = {} /\ \A w \in Units : spawned[w] = 0)

\* C8: with no provider configured the run ends in an error, without any
\* throttle sleep and without any task.
C8_EmptyPoolFatal ==
    nProviders = 0 => (pc # "done" /\ sleeps = 0 /\ handles = {})

\* C9: consecutive first admissions are at least spawn_task_delay apart:
\* when a pair after the first is admitted, at least the delay has passed
\* since the admission before it.
C9_Spaced == (i' = i + 1 /\ i >= 1) => elapsed >= delay

C9_AdmissionSpacing == [][C9_Spaced]_vars

\* Two pairs were admitted under a delay that is not zero.
C9_Witness ==
    /\ i >= 2
    /\ delay >= 1

\* C10: when the loop takes a task with an Err result out of the JoinSet,
\* the same step puts a new task for the same wallet and recipient into it,
\* on a provider of the pool, without any throttle sleep and whatever the
\* number of failures so far.
C10_Resubmitted ==
    \A t \in handles :
        (pc = "drain" /\ pc' = "drain" /\ t.st = "err" /\ t \notin handles') =>
            /\ \E u \in handles' :
                  /\ u.wallet = t.wallet
                  /\ u.recipient = t.recipient
                  /\ u.st = "has_claimed"
                  /\ u.provider \in 1..nProviders
            /\ Cardinality(handles') = Cardinality(handles)
            /\ elapsed' = elapsed
            /\ sleeps' = sleeps

C11_ReadIsCurrent ==
    \A t \in handles :
        /\ (t.st \in {"allocation", "transfer"} /\ t.has_claimed) => hasClaimed[t.wallet]
        /\ t.st = "allocation" => (t.has_claimed <=> hasClaimed[t.wallet])
        /\ t.claimTx # "none" => ~t.has_claimed

C11_ClaimedPath ==
    \A t \in handles :
        (Running(t) /\ t.st # "has_claimed" /\ t.has_claimed) =>
            /\ hasClaimed'[t.wallet] = hasClaimed[t.wallet]
            /\ balance'[t.wallet] <= balance[t.wallet]
            /\ \A u \in handles' :
                  (u.wallet = t.wallet /\ u.attempt = t.attempt) =>
                      /\ u.claimTx = "none"
                      /\ (t.st = "allocation" /\ u.st = "transfer") =>
                            u.allocation = balance[t.wallet]
                      /\ (t.st = "transfer" /\ t.allocation = 0 /\ u.st = "ok") =>
                            (u.transferTx = "none" /\ balance' = balance)

C11_ClaimedOnce ==
    \A w \in Units :
        hasClaimed[w] => (hasClaimed'[w] /\ balance'[w] <= balance[w])

C11_ClaimOnlyIfNotClaimed ==
    /\ []C11_ReadIsCurrent
    /\ [][C11_ClaimedPath /\ C11_ClaimedOnce]_vars

\* A resubmitted run found the address claimed, sent no claim and had its
\* transfer of the balance mined.
C11_Witness ==
    \E t \in handles :
        /\ t.st = "ok"
        /\ t.attempt >= 2
        /\ t.claimTx = "none"
        /\ t.transferTx = "confirmed"
        /\ hasClaimed[t.wallet]
        /\ proofAmount[t.wallet] = 1

\* C12: the registry never holds a task of a unit whose success join_next has
\* returned, and from then on no task is spawned for that unit.
C12_RegistryFree ==
    \A t \in handles : successes[t.wallet] = 0

C12_NoSpawn ==
    \A w \in Units :
        successes[w] >= 1 =>
            /\ spawned'[w] = spawned[w]
            /\ \A u \in handles' : u.wallet # w

C12_NoTaskAfterSuccess ==
    /\ []C12_RegistryFree
    /\ [][C12_NoSpawn]_vars

\* One unit succeeded on a resubmission while another unit, itself already
\* resubmitted, still has a task in the registry.
C12_Witness ==
    \E w \in Units :
        /\ successes[w] = 1
        /\ failures[w] >= 1
        /\ \E t \in handles : t.wallet # w /\ t.attempt >= 2 /\ Running(t)

\* The for loop of claim_for_all is running.
InFill == pc \in {"fill_sleep", "fill_spawn"}

\* C13: while the for loop runs no task is joined and no outcome is recorded;
\* its next step never waits for a task, whatever the tasks spawned so far
\* have done; the first attempts are spawned in input order, one per pair;
\* the while loop starts only after the last of them, and with a provider
\* to choose every pair gets its first attempt.
C13_FillState ==
    /\ InFill => (i < NumUnits /\ {t.wallet : t \in handles} = 1..i)
    /\ pc = "fill_sleep" => ENABLED FillSleep
    /\ pc = "fill_spawn" => ENABLED FillSpawn
    /\ pc \in {"drain", "done"} => (i = NumUnits /\ \A w \in Units : spawned[w] >= 1)

C13_FillStep ==
    InFill =>
        /\ failures' = failures
        /\ successes' = successes
        /\ {t.wallet : t \in handles} \subseteq {u.wallet : u \in handles'}
        /\ i' # i =>
              /\ i' = i + 1
              /\ \E u \in handles' :
                    /\ u = NewTask(i + 1, i + 1, u.provider, 1)
                    /\ handles' = handles \cup {u}

C13_FillDecoupled ==
    /\ []C13_FillState
    /\ [][C13_FillStep]_vars
    /\ (nProviders > 0 => <>(i = NumUnits))

\* The second pair is about to be admitted although the first pair's task
\* has already finished and nobody has looked at its outcome.
C13_Witness ==
    /\ pc = "fill_spawn"
    /\ i = 1
    /\ \E t \in handles : Finished(t) /\ t.wallet = 1

\* C14: every task, first attempt or resubmission, carries the pair formed
\* by position (the w-th wallet with the w-th recipient); a resubmission
\* takes the pair of the task it replaces and only its provider may differ.
C14_Paired ==
    \A t \in handles : t.wallet \in Units /\ t.recipient = t.wallet

C14_RespawnKeepsPair ==
    \A w \in Units :
        (spawned[w] >= 1 /\ spawned'[w] # spawned[w]) =>
            \E t \in handles \ handles', u \in handles' \ handles :
                /\ t.wallet = w
                /\ u = NewTask(t.wallet, t.recipient, u.provider, t.attempt + 1)

C14_PairImmutable ==
    /\ []C14_Paired
    /\ [][C14_RespawnKeepsPair]_vars

\* The second pair's transfer was mined in a resubmitted task, which carries
\* the second recipient.
C14_Witness ==
    \E t \in handles :
        /\ t.wallet = 2
        /\ t.recipient = 2
        /\ t.attempt >= 2
        /\ t.st = "ok"
        /\ t.transferTx = "confirmed"

\* C15: the pool is never changed by an admission or a resubmission, every
\* task's provider is a member of it, several tasks in the registry may hold
\* the same provider, and every member of the pool, the provider of the
\* failed task included, can be chosen for a resubmission or an admission.
C15_FromPool ==
    \A t \in handles : t.provider \in 1..nProviders

C15_AnyMember ==
    /\ \A t \in handles :
          (pc = "drain" /\ t.st = "err") =>
              \A p \in 1..nProviders :
                  ENABLED (JoinNextErr(t) /\
                           \E u \in handles' : u.wallet = t.wallet /\ u.provider = p)
    /\ pc = "fill_spawn" =>
          \A p \in 1..nProviders :
              ENABLED (FillSpawn /\
                       \E u \in handles' : u.wallet = i + 1 /\ u.provider = p)

C15_SelectionWithReplacement ==
    /\ [](C15_FromPool /\ C15_AnyMember)
    /\ [][nProviders' = nProviders]_vars

\* With two providers in the pool, a resubmitted task and the task of
\* another pair run on the same provider.
C15_Witness ==
    /\ nProviders = 2
    /\ \E t, u \in handles :
          /\ t.wallet # u.wallet
          /\ t.provider = u.provider
          /\ t.attempt >= 2
          /\ Running(t) /\ Running(u)

\* C16: the registry never holds more tasks than there are pairs; while the
\* while loop waits in join_next it holds one task for each admitted pair
\* without a recorded success; an admission adds exactly one task, a joined
\* success removes exactly one, and a joined failure removes one and adds one.
C16_Bounded ==
    /\ Cardinality(handles) <= NumUnits
    /\ pc = "drain" =>
          Cardinality(handles) = Cardinality({w \in 1..i : successes[w] = 0})

C16_ByOne ==
    /\ i' # i => Cardinality(handles') = Cardinality(handles) + 1
    /\ successes' # successes => Cardinality(handles') = Cardinality(handles) - 1
    /\ failures' # failures =>
          /\ Cardinality(handles \ handles') = 1
          /\ Cardinality(handles' \ handles) = 1
    /\ (pc' # "panicked" /\ i' = i /\ successes' = successes /\ failures' = failures) =>
          Cardinality(handles') = Cardinality(handles)

C16_RegistryBound ==
    /\ []C16_Bounded
    /\ [][C16_ByOne]_vars

\* Of two pairs one has succeeded and the other, resubmitted twice, has the
\* only task left in the registry.
C16_Witness ==
    /\ NumUnits = 2
    /\ pc = "drain"
    /\ Cardinality(handles) = 1
    /\ \E w \in Units : successes[w] = 1
    /\ \E w \in Units : successes[w] = 0 /\ failures[w] = 2

\* C17: while the for loop runs every task in the registry is a first
\* attempt and no outcome has been recorded, also when a task has already
\* failed; a task beyond a pair's first is spawned only by the while loop,
\* after the last first admission.
C17_OnlyFirstAttempts ==
    InFill =>
        /\ \A t \in handles : t.attempt = 1
        /\ \A w \in Units : failures[w] = 0 /\ spawned[w] <= 1

C17_ResubmitInDrain ==
    \A w \in Units :
        (spawned[w] >= 1 /\ spawned'[w] # spawned[w]) =>
            (pc = "drain" /\ i = NumUnits /\ \A v \in Units : spawned[v] >= 1)

C17_AdmissionsBeforeResubmissions ==
    /\ []C17_OnlyFirstAttempts
    /\ [][C17_ResubmitInDrain]_vars

\* The first pair's task has failed while the for loop sleeps before the
\* second admission; the failure is neither counted nor resubmitted.
C17_Witness ==
    /\ pc = "fill_sleep"
    /\ i < NumUnits
    /\ \E t \in handles : t.st = "err" /\ t.attempt = 1 /\ failures[t.wallet] = 0

\* ------------------------------------------- send_http_request_with_retries
\* Option::unwrap_or.
UnwrapOr(opt, default) == IF opt = << >> THEN default ELSE opt[1]

\* proof.rs 74-75: the two locals that shadow the arguments.
MaxRetriesOf == UnwrapOr(max_retries, DefaultMaxRetries)
RetryDelayOf == UnwrapOr(retry_delay, DefaultRetryDelay)

\* proof.rs 77-79: an iteration of the for loop whose request returns Ok.
RetryRequestOk ==
    /\ rpos = "loop"
    /\ tries < MaxRetriesOf
    /\ tries' = tries + 1
    /\ response' = "ok"
    /\ rpos' = "returned"
    /\ UNCHANGED <<max_retries, retry_delay, failed, waited>>
    /\ UNCHANGED <<config, chain, orch, handles>>

\* proof.rs 77-80: an iteration of the for loop whose request returns Err.
RetryRequestErr ==
    /\ rpos = "loop"
    /\ tries < MaxRetriesOf
    /\ tries' = tries + 1
    /\ failed' = failed + 1
    /\ rpos' = "sleep"
    /\ UNCHANGED <<max_retries, retry_delay, waited, response>>
    /\ UNCHANGED <<config, chain, orch, handles>>

\* RetrySleep as it would be if the Err arm went straight to the next
\* request.
RetrySleep_NoDelay ==
    /\ rpos = "sleep"
    /\ rpos' = "loop"
    /\ UNCHANGED <<max_retries, retry_delay, tries, failed, waited, response>>
    /\ UNCHANGED <<config, chain, orch, handles>>

\* proof.rs 81: tokio::time::sleep(retry_delay) in the Err arm.
RetrySleep ==
    /\ rpos = "sleep"
    /\ waited' = waited + RetryDelayOf
    /\ rpos' = "loop"
    /\ UNCHANGED <<max_retries, retry_delay, tries, failed, response>>
    /\ UNCHANGED <<config, chain, orch, handles>>

\* proof.rs 86: the range 0..max_retries is exhausted.
RetryBail ==
    /\ rpos = "loop"
    /\ tries >= MaxRetriesOf
    /\ response' = "Amount of tries exceeded"
    /\ rpos' = "returned"
    /\ UNCHANGED <<max_retries, retry_delay, tries, failed, waited>>
    /\ UNCHANGED <<config, chain, orch, handles>>

\* An Option argument over 0..n.
OptionOf(n) == {<< >>} \cup {<<x>> : x \in 0..n}

\* A call of send_http_request_with_retries on its own; claim_for_all is
\* not running.
RetryInit ==
    /\ nWallets = 0
    /\ nRecipients = 0
    /\ nProviders = 0
    /\ delay = 0
    /\ proofKind = << >>
    /\ proofAmount = << >>
    /\ hasClaimed = << >>
    /\ balance = << >>
    /\ pc = "done"
    /\ fatal = "none"
    /\ i = 0
    /\ elapsed = 0
    /\ sleeps = 0
    /\ handles = {}
    /\ spawned = << >>
    /\ failures = << >>
    /\ successes = << >>
    /\ max_retries \in OptionOf(MaxRetriesArg)
    /\ retry_delay \in OptionOf(MaxRetryDelayArg)
    /\ rpos = "loop"
    /\ tries = 0
    /\ failed = 0
    /\ waited = 0
    /\ response = "none"

RetryNext ==
    \/ RetryRequestOk
    \/ RetryRequestErr
    \/ RetrySleep
    \/ RetryBail

RetrySpec == RetryInit /\ [][RetryNext]_vars

\* Every request and every sleep the call awaits completes.
RetryFairSpec == RetrySpec /\ WF_vars(RetryNext)

\* C18: send_http_request_with_retries sends at most max_retries requests
\* (5 for None), returns at the first Ok without another request, has slept
\* retry_delay (3 for None) once for every failed request, returns "Amount
\* of tries exceeded" exactly when max_retries requests have failed (with
\* no request at all when max_retries is 0), and always returns.
C18_Bounded ==
    /\ tries <= MaxRetriesOf
    /\ max_retries = << >> => MaxRetriesOf = 5
    /\ retry_delay = << >> => RetryDelayOf = 3
    /\ rpos = "loop" => (failed = tries /\ waited = failed * RetryDelayOf)
    /\ rpos = "sleep" => (failed = tries /\ waited = (failed - 1) * RetryDelayOf)
    /\ rpos = "returned" =>
          /\ waited = failed * RetryDelayOf
          /\ response \in {"ok", "Amount of tries exceeded"}
          /\ response = "ok" => (tries = failed + 1 /\ tries <= MaxRetriesOf)
          /\ response = "Amount of tries exceeded" <=>
                (failed = MaxRetriesOf /\ tries = MaxRetriesOf)
          /\ MaxRetriesOf = 0 => (tries = 0 /\ response = "Amount of tries exceeded")

C18_ReturnIsFinal ==
    /\ rpos = "returned" => UNCHANGED retry
    /\ response' = "ok" /\ response # "ok" => (rpos = "loop" /\ tries' = tries + 1)

C18_BoundedRetry ==
    /\ []C18_Bounded
    /\ [][C18_ReturnIsFinal]_vars
    /\ <>(rpos = "returned")

\* A call with both arguments None has returned the error after five failed
\* requests and five sleeps of three.
C18_Witness ==
    /\ max_retries = << >>
    /\ retry_delay = << >>
    /\ rpos = "returned"
    /\ response = "Amount of tries exceeded"
    /\ tries = 5
    /\ waited = 15

====
